---- MODULE Spec2Model ----
(***************************************************************************)
(* State-machine model of the learning-module web app (frontend_2), its    *)
(* API client, the video player, the Pyodide notebook viewer and the       *)
(* docker-backend.sh management script.                                    *)
(*                                                                         *)
(* Text that the program trims (the topic) is a sequence of one-character  *)
(* strings; all other text is a TLA+ string.  JavaScript null is Null for  *)
(* string-valued fields and NoData for object-valued ones.                 *)
(***************************************************************************)
EXTENDS Integers, Sequences, FiniteSets, TLC

VARIABLES
    \* LearningContext (LearningProvider state)
    learningData, isLoading, error,
    \* TopicForm local state
    topic, userPreferences, selectedPreferences,
    \* POST /learn requests in flight, the outcome axios has settled with and
    \* that handleSubmit has not resumed on yet, and the number of submit
    \* events the form has handled
    pending, settled, submits,
    \* one VideoPlayer per rendered learning block, and the GET requests the
    \* browser has issued for <video src>
    players, videoRequests,
    \* one call of learningAPI.checkHealth: its position, what GET /health
    \* ends with, and what the call gives its caller
    health,
    \* NotebookViewer: its props, the script / loadPyodide / package
    \* installation it is waiting for, and its state; the program text of
    \* the last exec in the Python runtime, and how many times the user has
    \* edited a cell or asked for a run
    nbProps, initStage, pyodide, pyodideRef, isPyodideLoading,
    executedCells, cellOutputs, editableCode, pyExec, nbEvents,
    \* docker-backend.sh: the Docker host (containers by name, images), the
    \* environment's GEMINI_API_KEY, where the shell is (at the prompt, or the
    \* script has just finished), the script's globals after argument parsing
    \* and its exit status; the command line of the run, where a run is
    \* followed from its command line on (SpecArgs)
    containers, images, GEMINI_API_KEY, shell, script, exitStatus, argv,
    \* the legacy frontend's LinearAlgebraForm: its state and the message of
    \* the alert it has last raised
    laTopic, laDifficulty, laAlert

appVars == <<learningData, isLoading, error, topic, userPreferences,
             selectedPreferences, pending, settled, submits, players,
             videoRequests>>

healthVars == <<health>>

nbVars == <<nbProps, initStage, pyodide, pyodideRef, isPyodideLoading,
            executedCells, cellOutputs, editableCode, pyExec, nbEvents>>

dockerVars == <<containers, images, GEMINI_API_KEY, shell, script, exitStatus,
                argv>>

legacyVars == <<laTopic, laDifficulty, laAlert>>

vars == <<appVars, healthVars, nbVars, dockerVars, legacyVars>>

\* a step of the app leaves everything else alone
AppOnly == UNCHANGED <<healthVars, nbVars, dockerVars, legacyVars>>

----------------------------------------------------------------------------
(* Bounds of the model *)

\* longest topic the user types, over the alphabet TypedChars
MaxTopicLen == 2
\* how many of the SUGGESTED_TOPICS chips the user clicks among
NumSuggested == 2
\* how many of the PERSONALIZATION_OPTIONS chips the user clicks among
NumOptions == 2
\* submit events per session
MaxSubmits == 2
\* learning blocks in a response
MaxBlocks == 2
\* cells in a notebook
MaxCells == 2
\* edits of a code cell and requests to run one, per notebook session
MaxEvents == 2
\* commands and options on one command line of docker-backend.sh
MaxItems == 2

----------------------------------------------------------------------------
(* Values *)

Null == "<null>"
NoData == [null |-> TRUE]

Truthy(s) == s # Null /\ s # ""

TypedChars == {" ", "x"}

RECURSIVE StringsUpTo(_)
StringsUpTo(n) ==
    IF n = 0 THEN {<<>>}
    ELSE LET shorter == StringsUpTo(n - 1)
         IN  shorter \cup {Append(s, c) : s \in {t \in shorter : Len(t) = n - 1},
                                          c \in TypedChars}

TypedTopics == StringsUpTo(MaxTopicLen)

FreeTexts == {"", "short proofs"}

SUGGESTED_TOPICS ==
    << <<"L", "i", "n", "e", "a", "r", " ", "A", "l", "g", "e", "b", "r", "a">>,
       <<"C", "a", "l", "c", "u", "l", "u", "s">>,
       <<"M", "a", "c", "h", "i", "n", "e", " ", "L", "e", "a", "r", "n", "i", "n", "g">>,
       <<"S", "t", "a", "t", "i", "s", "t", "i", "c", "s">>,
       <<"P", "y", "t", "h", "o", "n", " ", "P", "r", "o", "g", "r", "a", "m", "m", "i", "n", "g">>,
       <<"D", "a", "t", "a", " ", "S", "t", "r", "u", "c", "t", "u", "r", "e", "s">>,
       <<"N", "e", "u", "r", "a", "l", " ", "N", "e", "t", "w", "o", "r", "k", "s">>,
       <<"L", "i", "n", "e", "a", "r", " ", "F", "u", "n", "c", "t", "i", "o", "n", "s">> >>

PERSONALIZATION_OPTIONS ==
    << "I want to see visual examples",
       "Focus on practical applications",
       "I am a beginner",
       "Show me code examples",
       "I prefer mathematical explanations",
       "I want interactive content",
       "Focus on real-world use cases",
       "I learn better with step-by-step guides" >>

Min(a, b) == IF a < b THEN a ELSE b

ClickedTopics == 1 .. Min(NumSuggested, Len(SUGGESTED_TOPICS))
ClickedOptions == 1 .. Min(NumOptions, Len(PERSONALIZATION_OPTIONS))

----------------------------------------------------------------------------
(* String.prototype.trim, Array.prototype.join / includes / filter *)

IsWhiteSpace(c) == c \in {" ", "\t", "\n", "\r"}

RECURSIVE TrimStart(_)
TrimStart(s) ==
    IF s = <<>> THEN <<>>
    ELSE IF IsWhiteSpace(Head(s)) THEN TrimStart(Tail(s))
    ELSE s

RECURSIVE TrimEnd(_)
TrimEnd(s) ==
    IF s = <<>> THEN <<>>
    ELSE IF IsWhiteSpace(s[Len(s)]) THEN TrimEnd(SubSeq(s, 1, Len(s) - 1))
    ELSE s

Trim(s) == TrimEnd(TrimStart(s))

RECURSIVE Join(_, _)
Join(list, sep) ==
    IF list = <<>> THEN ""
    ELSE IF Len(list) = 1 THEN list[1]
    ELSE list[1] \o sep \o Join(Tail(list), sep)

Includes(list, x) == \E i \in 1 .. Len(list) : list[i] = x

Without(list, x) == SelectSeq(list, LAMBDA p : p # x)

----------------------------------------------------------------------------
(* The backend's answers and axios *)

API_BASE_URL == "https://hophacks-learnwiz-backend.sliplane.app"

VisualizationPaths == {Null, "a.mp4"}

RECURSIVE PathLists(_)
PathLists(n) ==
    IF n = 0 THEN {<<>>}
    ELSE LET shorter == PathLists(n - 1)
         IN  shorter \cup {Append(l, p) : l \in {t \in shorter : Len(t) = n - 1},
                                          p \in VisualizationPaths}

LearningBlock(i, path) ==
    [id |-> i, topic |-> "block", text_content |-> "text",
     visualization_path |-> path]

LearnResponse(paths) ==
    [learning_blocks |-> [i \in 1 .. Len(paths) |-> LearningBlock(i, paths[i])],
     playground_path |-> "playground.ipynb",
     main_topic |-> "main topic",
     components |-> <<"text", "visualization">>,
     timestamp |-> "t"]

LearnResponses == {LearnResponse(paths) : paths \in PathLists(MaxBlocks)}

\* what a request ends with: an HTTP response, or no response at all
HttpResponse(status, data) == [kind |-> "response", status |-> status, data |-> data]
NetworkError == [kind |-> "network_error", status |-> 0, data |-> NoData]
Timeout == [kind |-> "timeout", status |-> 0, data |-> NoData]
NoOutcome == [kind |-> "none", status |-> 0, data |-> NoData]

ErrorStatuses == {400, 422, 500}

LearnOutcomes ==
    {HttpResponse(200, r) : r \in LearnResponses}
    \cup {HttpResponse(s, NoData) : s \in ErrorStatuses}
    \cup {NetworkError, Timeout}

\* axios resolves on a 2xx status (its default validateStatus), rejects otherwise
AxiosResolves(o) == o.kind = "response" /\ o.status >= 200 /\ o.status < 300

\* the AxiosError a rejected request carries (an instance of Error)
AxiosError(o) ==
    [isError |-> TRUE,
     message |-> CASE o.kind = "network_error" -> "Network Error"
                   [] o.kind = "timeout" -> "timeout of 300000ms exceeded"
                   [] OTHER -> "Request failed with status code " \o ToString(o.status)]

Return(v) == [kind |-> "return", value |-> v]
Throw(e) == [kind |-> "throw", value |-> e]

GENERATE_FAILED == "Failed to generate learning module. Please try again."

\* the response's data is lost on the way to the caller
generateLearningModule_DropsData(o) ==
    IF AxiosResolves(o) THEN Return(NoData)
    ELSE Throw([isError |-> TRUE, message |-> GENERATE_FAILED])

\* the AxiosError of a rejected request is rethrown as it is
generateLearningModule_Rethrows(o) ==
    IF AxiosResolves(o) THEN Return(o.data)
    ELSE Throw(AxiosError(o))

generateLearningModule(o) ==
    IF AxiosResolves(o) THEN Return(o.data)
    ELSE Throw([isError |-> TRUE, message |-> GENERATE_FAILED])

getVisualizationUrl(visualizationPath) ==
    API_BASE_URL \o "/visualization/" \o visualizationPath

----------------------------------------------------------------------------
(* What is rendered *)

\* AppContent: the topic form until learningData is set
AppShows == IF learningData = NoData THEN "TopicForm" ELSE "LearningModule"

LearningModuleProps ==
    [learningBlocks |-> learningData.learning_blocks,
     mainTopic |-> learningData.main_topic,
     components |-> learningData.components]

SnackbarOpen == Truthy(error)

FormAlertShown == AppShows = "TopicForm" /\ Truthy(error)

\* the submit button stays enabled while a request is in flight
SubmitDisabled_IgnoresLoading == Trim(topic) = <<>>

SubmitDisabled == isLoading \/ Trim(topic) = <<>>

\* no early return for a missing videoPath
PlayerShows_NoPathCheck(p) ==
    IF ~p.isPlaying THEN "ClickToPlay"
    ELSE "Video"

\* VideoPlayer: what one player shows
PlayerShows(p) ==
    IF ~Truthy(p.videoPath) THEN "NoVisualization"
    ELSE IF ~p.isPlaying THEN "ClickToPlay"
    ELSE "Video"

PlayOffered(p) == PlayerShows(p) = "ClickToPlay"

PlayerErrorShown(p) == PlayerShows(p) = "Video" /\ Truthy(p.error)

NewPlayer(path) ==
    [videoPath |-> path, isPlaying |-> FALSE, isMuted |-> FALSE,
     isLoading |-> FALSE, error |-> Null, video |-> "unmounted"]

----------------------------------------------------------------------------
(* TopicForm *)

\* LearningModule renders one VideoPlayer per learning block
MountPlayers(data) ==
    IF data = NoData THEN <<>>
    ELSE [b \in 1 .. Len(data.learning_blocks) |->
              NewPlayer(data.learning_blocks[b].visualization_path)]

\* no handler runs while a settled promise still has its continuation to run
Idle == settled = NoOutcome

FormMounted == AppShows = "TopicForm"

SetTopic(s) ==
    /\ AppOnly
    /\ Idle /\ FormMounted
    /\ topic' = s
    /\ UNCHANGED <<learningData, isLoading, error, userPreferences,
                   selectedPreferences, pending, settled, submits, players,
                   videoRequests>>

handleTopicClick(i) ==
    /\ AppOnly
    /\ Idle /\ FormMounted
    /\ topic' = SUGGESTED_TOPICS[i]
    /\ UNCHANGED <<learningData, isLoading, error, userPreferences,
                   selectedPreferences, pending, settled, submits, players,
                   videoRequests>>

\* deselecting a chip deselects them all
TogglePreference_ClearsAll(prev, preference) ==
    IF Includes(prev, preference) THEN <<>>
    ELSE Append(prev, preference)

TogglePreference(prev, preference) ==
    IF Includes(prev, preference) THEN Without(prev, preference)
    ELSE Append(prev, preference)

handlePreferenceToggle(i) ==
    /\ AppOnly
    /\ Idle /\ FormMounted
    /\ selectedPreferences' =
           TogglePreference(selectedPreferences, PERSONALIZATION_OPTIONS[i])
    /\ UNCHANGED <<learningData, isLoading, error, topic, userPreferences,
                   pending, settled, submits, players, videoRequests>>

SetUserPreferences(s) ==
    /\ AppOnly
    /\ Idle /\ FormMounted
    /\ userPreferences' = s
    /\ UNCHANGED <<learningData, isLoading, error, topic, selectedPreferences,
                   pending, settled, submits, players, videoRequests>>

\* the free text wins over the chips
Preferences_FreeTextFirst ==
    IF userPreferences # "" THEN userPreferences
    ELSE Join(selectedPreferences, ", ")

Preferences ==
    IF Len(selectedPreferences) > 0 THEN Join(selectedPreferences, ", ")
    ELSE userPreferences

\* the topic is sent as typed
LearnRequest_Untrimmed == [topic |-> topic, user_preferences |-> Preferences]

LearnRequest == [topic |-> Trim(topic), user_preferences |-> Preferences]

\* the browser submits the form only through its enabled submit button
CanSubmit == ~SubmitDisabled

\* no setError(null) at the start of a submit
onSubmit_KeepsError ==
    /\ AppOnly
    /\ Idle /\ FormMounted
    /\ submits < MaxSubmits
    /\ submits' = submits + 1
    /\ IF Trim(topic) = <<>>
       THEN /\ error' = "Please enter a topic"
            /\ UNCHANGED <<isLoading, pending>>
       ELSE /\ isLoading' = TRUE
            /\ error' = error
            /\ pending' = Append(pending, LearnRequest)
    /\ UNCHANGED <<learningData, topic, userPreferences, selectedPreferences,
                   settled, players, videoRequests>>

\* only an empty topic is refused
onSubmit_NoTrim ==
    /\ AppOnly
    /\ Idle /\ FormMounted
    /\ submits < MaxSubmits
    /\ submits' = submits + 1
    /\ IF topic = <<>>
       THEN /\ error' = "Please enter a topic"
            /\ UNCHANGED <<isLoading, pending>>
       ELSE /\ isLoading' = TRUE
            /\ error' = Null
            /\ pending' = Append(pending, LearnRequest)
    /\ UNCHANGED <<learningData, topic, userPreferences, selectedPreferences,
                   settled, players, videoRequests>>

\* a submit event reaches the form: handleSubmit up to its await
onSubmit ==
    /\ AppOnly
    /\ Idle /\ FormMounted
    /\ submits < MaxSubmits
    /\ submits' = submits + 1
    /\ IF Trim(topic) = <<>>
       THEN /\ error' = "Please enter a topic"
            /\ UNCHANGED <<isLoading, pending>>
       ELSE /\ isLoading' = TRUE
            /\ error' = Null
            /\ pending' = Append(pending, LearnRequest)
    /\ UNCHANGED <<learningData, topic, userPreferences, selectedPreferences,
                   settled, players, videoRequests>>

\* the user submits the form, by its button or by Enter in a field
handleSubmit == CanSubmit /\ onSubmit

\* the backend answers a request in flight, or the request fails
AxiosSettles(i, o) ==
    /\ AppOnly
    /\ Idle
    /\ i \in 1 .. Len(pending)
    /\ pending' = SubSeq(pending, 1, i - 1) \o SubSeq(pending, i + 1, Len(pending))
    /\ settled' = o
    /\ UNCHANGED <<learningData, isLoading, error, topic, userPreferences,
                   selectedPreferences, submits, players, videoRequests>>

\* the catch swallows the error
CatchMessage_Swallowed(err) == Null

CatchMessage(err) == IF err.isError THEN err.message ELSE "An error occurred"

\* no finally: a failed request leaves isLoading as it is
resumeHandleSubmit_NoFinally ==
    /\ AppOnly
    /\ settled # NoOutcome
    /\ settled' = NoOutcome
    /\ LET r == generateLearningModule(settled)
       IN  IF r.kind = "return"
           THEN /\ learningData' = r.value
                /\ error' = error
                /\ players' = MountPlayers(r.value)
                /\ topic' = <<>>
                /\ userPreferences' = ""
                /\ selectedPreferences' = <<>>
                /\ isLoading' = FALSE
           ELSE /\ error' = CatchMessage(r.value)
                /\ UNCHANGED <<learningData, players, topic, userPreferences,
                               selectedPreferences, isLoading>>
    /\ UNCHANGED <<pending, submits, videoRequests>>

\* handleSubmit from its await on: setLearningData or the catch, then finally.
\* Once learningData is set AppContent replaces the form by the learning
\* module: the form's state is gone and one VideoPlayer per block is mounted.
resumeHandleSubmit ==
    /\ AppOnly
    /\ settled # NoOutcome
    /\ settled' = NoOutcome
    /\ LET r == generateLearningModule(settled)
       IN  IF r.kind = "return"
           THEN /\ learningData' = r.value
                /\ error' = error
                /\ players' = MountPlayers(r.value)
                /\ topic' = <<>>
                /\ userPreferences' = ""
                /\ selectedPreferences' = <<>>
           ELSE /\ error' = CatchMessage(r.value)
                /\ UNCHANGED <<learningData, players, topic, userPreferences,
                               selectedPreferences>>
    /\ isLoading' = FALSE
    /\ UNCHANGED <<pending, submits, videoRequests>>

\* AppContent's Snackbar closes (after autoHideDuration, or by the user)
handleCloseError ==
    /\ AppOnly
    /\ Idle
    /\ SnackbarOpen
    /\ error' = Null
    /\ UNCHANGED <<learningData, isLoading, topic, userPreferences,
                   selectedPreferences, pending, settled, submits, players,
                   videoRequests>>

----------------------------------------------------------------------------
(* VideoPlayer *)

PlayerStep(b, p) ==
    /\ AppOnly
    /\ players' = [players EXCEPT ![b] = p]
    /\ UNCHANGED <<learningData, isLoading, error, topic, userPreferences,
                   selectedPreferences, pending, settled, submits>>

\* no setError(null) on play
handlePlay_KeepsError(b) ==
    /\ Idle
    /\ b \in DOMAIN players
    /\ PlayOffered(players[b])
    /\ PlayerStep(b, [players[b] EXCEPT !.isLoading = TRUE,
                                        !.isPlaying = TRUE, !.video = "loading"])
    /\ videoRequests' = videoRequests \cup {getVisualizationUrl(players[b].videoPath)}

\* click on the placeholder; the <video src autoPlay> element is mounted and
\* the browser requests its src
handlePlay(b) ==
    /\ Idle
    /\ b \in DOMAIN players
    /\ PlayOffered(players[b])
    /\ PlayerStep(b, [players[b] EXCEPT !.isLoading = TRUE, !.error = Null,
                                        !.isPlaying = TRUE, !.video = "loading"])
    /\ videoRequests' = videoRequests \cup {getVisualizationUrl(players[b].videoPath)}

\* onLoadedData
handleVideoLoad(b) ==
    /\ Idle
    /\ b \in DOMAIN players
    /\ players[b].video = "loading"
    /\ PlayerStep(b, [players[b] EXCEPT !.isLoading = FALSE, !.video = "loaded"])
    /\ UNCHANGED videoRequests

\* onError; with isPlaying false the <video> element is unmounted
handleVideoError(b) ==
    /\ Idle
    /\ b \in DOMAIN players
    /\ players[b].video \in {"loading", "loaded"}
    /\ PlayerStep(b, [players[b] EXCEPT !.isLoading = FALSE,
                                        !.error = "Failed to load video",
                                        !.isPlaying = FALSE,
                                        !.video = "unmounted"])
    /\ UNCHANGED videoRequests

toggleMute(b) ==
    /\ Idle
    /\ b \in DOMAIN players
    /\ PlayerShows(players[b]) = "Video"
    /\ PlayerStep(b, [players[b] EXCEPT !.isMuted = ~players[b].isMuted])
    /\ UNCHANGED videoRequests

----------------------------------------------------------------------------
(* The app *)

AppInit ==
    /\ learningData = NoData
    /\ isLoading = FALSE
    /\ error = Null
    /\ topic = <<>>
    /\ userPreferences = ""
    /\ selectedPreferences = <<>>
    /\ pending = <<>>
    /\ settled = NoOutcome
    /\ submits = 0
    /\ players = <<>>
    /\ videoRequests = {}

HealthIdle == health = [pc |-> "idle", outcome |-> NoOutcome, result |-> NoData]

NotebookUnmounted ==
    /\ nbProps = [notebookData |-> NoData, isLoading |-> FALSE, error |-> Null]
    /\ initStage = "unmounted"
    /\ pyodide = Null
    /\ pyodideRef = Null
    /\ isPyodideLoading = TRUE
    /\ executedCells = {}
    /\ cellOutputs = <<>>
    /\ editableCode = <<>>
    /\ pyExec = NoData
    /\ nbEvents = 0

\* docker-backend.sh's globals before argument parsing (the defaults of
\* IMAGE_NAME, CONTAINER_NAME and PORT), with what the script has done so
\* far: printed its usage, reached the case statement on COMMAND
DefaultGlobals ==
    [COMMAND |-> "",
     IMAGE_NAME |-> "hophacks-backend",
     CONTAINER_NAME |-> "hophacks-backend-container",
     PORT |-> "8000",
     usage |-> FALSE,
     dispatched |-> FALSE]

Absent == [state |-> "absent", image |-> "", port |-> ""]

ContainerNames == {DefaultGlobals.CONTAINER_NAME, "alt"}

\* no script is looked at: an empty Docker host and a shell at its prompt
NoDocker ==
    /\ containers = [n \in ContainerNames |-> Absent]
    /\ images = {}
    /\ GEMINI_API_KEY = Null
    /\ shell = "prompt"
    /\ script = DefaultGlobals
    /\ exitStatus = 0
    /\ argv = <<>>

\* LinearAlgebraForm as it mounts
LegacyMounted ==
    /\ laTopic = <<>>
    /\ laDifficulty = "beginner"
    /\ laAlert = Null

Init == AppInit /\ HealthIdle /\ NotebookUnmounted /\ NoDocker /\ LegacyMounted

Next ==
    \/ \E s \in TypedTopics : SetTopic(s)
    \/ \E i \in ClickedTopics : handleTopicClick(i)
    \/ \E i \in ClickedOptions : handlePreferenceToggle(i)
    \/ \E s \in FreeTexts : SetUserPreferences(s)
    \/ handleSubmit
    \/ \E i \in 1 .. Len(pending), o \in LearnOutcomes : AxiosSettles(i, o)
    \/ resumeHandleSubmit
    \/ handleCloseError
    \/ \E b \in 1 .. MaxBlocks : handlePlay(b)
    \/ \E b \in 1 .. MaxBlocks : handleVideoLoad(b)
    \/ \E b \in 1 .. MaxBlocks : handleVideoError(b)
    \/ \E b \in 1 .. MaxBlocks : toggleMute(b)

Spec == Init /\ [][Next]_vars

\* TopicForm's topic and submit alone, where every request in flight settles
\* and the continuation of handleSubmit runs; the preferences stay as they
\* start and no video is played
FairNext ==
    \/ \E s \in TypedTopics : SetTopic(s)
    \/ \E i \in ClickedTopics : handleTopicClick(i)
    \/ handleSubmit
    \/ \E i \in 1 .. Len(pending), o \in LearnOutcomes : AxiosSettles(i, o)
    \/ resumeHandleSubmit
    \/ handleCloseError

SpecFair ==
    /\ Init /\ [][FairNext]_vars
    /\ WF_vars(\E i \in 1 .. Len(pending), o \in LearnOutcomes : AxiosSettles(i, o))
    /\ WF_vars(resumeHandleSubmit)

\* TopicForm's topic and submit alone, with submit events dispatched to the
\* form itself (form.requestSubmit(), a test's fireEvent.submit), whatever
\* the state of its button; the preferences stay as they start
SubmitEventNext ==
    \/ \E s \in TypedTopics : SetTopic(s)
    \/ \E i \in ClickedTopics : handleTopicClick(i)
    \/ onSubmit
    \/ \E i \in 1 .. Len(pending), o \in LearnOutcomes : AxiosSettles(i, o)
    \/ resumeHandleSubmit
    \/ handleCloseError

SpecSubmitEvent == Init /\ [][SubmitEventNext]_vars

----------------------------------------------------------------------------
(* learningAPI.checkHealth *)

\* every final HTTP status, or no response at all
HttpStatuses == 200 .. 599

HealthOutcomes ==
    {HttpResponse(s, NoData) : s \in HttpStatuses} \cup {NetworkError, Timeout}

\* any 2xx answer counts as healthy
checkHealth_AnySuccess(o) == Return(AxiosResolves(o))

checkHealth(o) ==
    IF AxiosResolves(o) THEN Return(o.status = 200)
    ELSE Return(FALSE)

\* the app is not running while checkHealth is looked at on its own
AppIdle == AppInit

\* checkHealth is called: GET /health is sent and will end with outcome o
HealthInit ==
    /\ AppIdle /\ LegacyMounted
    /\ NotebookUnmounted
    /\ NoDocker
    /\ \E o \in HealthOutcomes :
           health = [pc |-> "awaiting", outcome |-> o, result |-> NoData]

\* the request settles and checkHealth gives its caller the result
checkHealthSettles ==
    /\ health.pc = "awaiting"
    /\ health' = [health EXCEPT !.pc = "done", !.result = checkHealth(health.outcome)]
    /\ UNCHANGED <<appVars, nbVars, dockerVars, legacyVars>>

HealthNext == checkHealthSettles

SpecHealth == HealthInit /\ [][HealthNext]_vars

----------------------------------------------------------------------------
(* NotebookViewer *)

\* Map.set / Map.delete / Map.get on a Map keyed by cell index; cell i of the
\* model is the cell of index i - 1 in the code
MapSet(m, k, v) == [x \in (DOMAIN m) \cup {k} |-> IF x = k THEN v ELSE m[x]]
MapDelete(m, k) == [x \in (DOMAIN m) \ {k} |-> m[x]]
MapHas(m, k) == k \in DOMAIN m

\* a cell's source is a list of lines, each a string of characters
MarkdownCell == [cell_type |-> "markdown", source |-> << <<"#", " ", "t">> >>]
CodeCell == [cell_type |-> "code", source |-> << <<"a", "\n">>, <<"b">> >>]

RECURSIVE CellLists(_)
CellLists(n) ==
    IF n = 0 THEN {<<>>}
    ELSE LET shorter == CellLists(n - 1)
         IN  shorter \cup {Append(l, c) : l \in {t \in shorter : Len(t) = n - 1},
                                          c \in {MarkdownCell, CodeCell}}

Notebooks == {[cells |-> l] : l \in CellLists(MaxCells)}

NotebookProps ==
    [notebookData : Notebooks \cup {NoData},
     isLoading : BOOLEAN,
     error : {Null, "Failed to fetch notebook"}]

\* what the user leaves in a code cell's textarea: nothing, a statement, and a
\* string literal with a backslash escape
EditedCodes == {<<>>, <<"c">>, <<"\"", "\\", "n", "\"">>}

PyodideInstance == "pyodideInstance"

\* what NotebookViewer returns: one of its three early returns or the notebook
NotebookShows ==
    IF nbProps.isLoading THEN "Loading"
    ELSE IF Truthy(nbProps.error) THEN "Error"
    ELSE IF nbProps.notebookData = NoData THEN "NoData"
    ELSE "Notebook"

\* the <Alert> elements of the view
NotebookAlerts ==
    CASE NotebookShows = "Error" ->
             {[severity |-> "error", text |-> nbProps.error]}
      [] NotebookShows = "Notebook" /\ isPyodideLoading ->
             {[severity |-> "info", text |-> "Loading Python runtime"]}
      [] OTHER -> {}

CodeCells ==
    IF NotebookShows = "Notebook"
    THEN {i \in 1 .. Len(nbProps.notebookData.cells) :
              nbProps.notebookData.cells[i].cell_type = "code"}
    ELSE {}

\* cell.source.join('')
originalCode(i) == Join(nbProps.notebookData.cells[i].source, <<>>)

\* editableCode.get(index) || originalCode: the empty string is falsy
editableCodeValue(i) ==
    IF MapHas(editableCode, i) /\ editableCode[i] # <<>> THEN editableCode[i]
    ELSE originalCode(i)

RunDisabled == pyodide = Null \/ isPyodideLoading

\* the component mounts with some props; the effect appends the Pyodide
\* <script> to the document
NotebookMounted ==
    /\ nbProps \in NotebookProps
    /\ initStage = "script"
    /\ pyodide = Null
    /\ pyodideRef = Null
    /\ isPyodideLoading = TRUE
    /\ executedCells = {}
    /\ cellOutputs = <<>>
    /\ editableCode = <<>>
    /\ pyExec = NoData
    /\ nbEvents = 0

NbStep == UNCHANGED <<appVars, healthVars, dockerVars, legacyVars, nbProps>>

\* script.onload, then each await of its handler that resolves
NextStage(stage) ==
    CASE stage = "script" -> "loadPyodide"
      [] stage = "loadPyodide" -> "loadPackage"
      [] stage = "loadPackage" -> "install"
      [] stage = "install" -> "ready"

initStepSucceeds ==
    /\ NbStep
    /\ initStage \in {"script", "loadPyodide", "loadPackage", "install"}
    /\ initStage' = NextStage(initStage)
    /\ IF initStage' = "ready"
       THEN /\ pyodide' = PyodideInstance
            /\ pyodideRef' = PyodideInstance
            /\ isPyodideLoading' = FALSE
       ELSE UNCHANGED <<pyodide, pyodideRef, isPyodideLoading>>
    /\ UNCHANGED <<executedCells, cellOutputs, editableCode, pyExec, nbEvents>>

\* a failure that leaves isPyodideLoading as it is
initStepFails_KeepsLoading ==
    /\ NbStep
    /\ initStage \in {"script", "loadPyodide", "loadPackage", "install"}
    /\ initStage' = "failed"
    /\ UNCHANGED <<pyodide, pyodideRef, isPyodideLoading, executedCells,
                   cellOutputs, editableCode, pyExec, nbEvents>>

\* script.onerror, or the catch of the onload handler
initStepFails ==
    /\ NbStep
    /\ initStage \in {"script", "loadPyodide", "loadPackage", "install"}
    /\ initStage' = "failed"
    /\ isPyodideLoading' = FALSE
    /\ UNCHANGED <<pyodide, pyodideRef, executedCells, cellOutputs, editableCode,
                   pyExec, nbEvents>>

handleCodeChange(i, newCode) ==
    /\ NbStep
    /\ i \in CodeCells
    /\ nbEvents < MaxEvents
    /\ nbEvents' = nbEvents + 1
    /\ editableCode' = MapSet(editableCode, i, newCode)
    /\ UNCHANGED <<initStage, pyodide, pyodideRef, isPyodideLoading,
                   executedCells, cellOutputs, pyExec>>

\* String.prototype.replace(/c/g, r)
RECURSIVE ReplaceAll(_, _, _)
ReplaceAll(s, c, r) ==
    IF s = <<>> THEN <<>>
    ELSE (IF Head(s) = c THEN r ELSE <<Head(s)>>) \o ReplaceAll(Tail(s), c, r)

\* the value of the Python string literal """lit""": Python reads \n as a
\* line break, \" as a quote and \\ as a backslash
RECURSIVE PyStringValue(_)
PyStringValue(lit) ==
    IF lit = <<>> THEN <<>>
    ELSE IF Head(lit) = "\\" /\ Len(lit) >= 2
    THEN (CASE lit[2] = "n" -> <<"\n">>
            [] lit[2] = "\"" -> <<"\"">>
            [] lit[2] = "\\" -> <<"\\">>
            [] OTHER -> <<"\\", lit[2]>>)
         \o PyStringValue(SubSeq(lit, 3, Len(lit)))
    ELSE <<Head(lit)>> \o PyStringValue(Tail(lit))

\* the program text that exec receives for the code of a cell: the value of
\* the literal that holds code.replace(/"/g, '\\"').replace(/\n/g, '\\n')
ExecArgument(code) ==
    PyStringValue(ReplaceAll(ReplaceAll(code, "\"", <<"\\", "\"">>),
                             "\n", <<"\\", "n">>))

\* what pyodide.runPython does with the wrapped code: it throws, or returns
\* the pair (result, stdout_content)
RunThrows == [kind |-> "throw", execResult |-> "none", stdout |-> <<>>]
RunReturns(r, out) == [kind |-> "return", execResult |-> r, stdout |-> out]

RunOutcomes ==
    {RunThrows} \cup {RunReturns(r, out) : r \in {"null", "Error", "value"},
                                           out \in {<<>>, <<"\n">>, <<"1", "\n">>}}

StreamOutput(out) == [output_type |-> "stream", name |-> "stdout", text |-> <<out>>]
ErrorOutput(ename) == [output_type |-> "error", ename |-> ename]
ResultOutput(count) == [output_type |-> "execute_result", execution_count |-> count]

\* stdout && stdout.trim(), then the result or error
RunOutputs(o, i) ==
    (IF o.stdout # <<>> /\ Trim(o.stdout) # <<>>
     THEN <<StreamOutput(o.stdout)>> ELSE <<>>)
    \o (CASE o.execResult = "Error" -> <<ErrorOutput("Error")>>
          [] o.execResult = "value" -> <<ResultOutput(i)>>
          [] OTHER -> <<>>)

\* the outputs of a run are added after those the cell already has
executeCode_Appends(code, i, o) ==
    /\ NbStep
    /\ i \in CodeCells
    /\ nbEvents < MaxEvents
    /\ nbEvents' = nbEvents + 1
    /\ IF pyodideRef = Null
       THEN UNCHANGED <<cellOutputs, executedCells, pyExec>>
       ELSE /\ pyExec' = [cellIndex |-> i, code |-> ExecArgument(code)]
            /\ LET earlier == IF MapHas(cellOutputs, i) THEN cellOutputs[i] ELSE <<>>
               IN  IF o.kind = "throw"
                   THEN /\ cellOutputs' = MapSet(cellOutputs, i,
                                earlier \o <<ErrorOutput("PythonError")>>)
                        /\ UNCHANGED executedCells
                   ELSE /\ cellOutputs' = MapSet(cellOutputs, i,
                                earlier \o RunOutputs(o, i))
                        /\ executedCells' = executedCells \cup {i}
    /\ UNCHANGED <<initStage, pyodide, pyodideRef, isPyodideLoading, editableCode>>

\* a run that throws marks the cell as executed all the same
executeCode_MarksOnThrow(code, i, o) ==
    /\ NbStep
    /\ i \in CodeCells
    /\ nbEvents < MaxEvents
    /\ nbEvents' = nbEvents + 1
    /\ IF pyodideRef = Null
       THEN UNCHANGED <<cellOutputs, executedCells, pyExec>>
       ELSE /\ pyExec' = [cellIndex |-> i, code |-> ExecArgument(code)]
            /\ executedCells' = executedCells \cup {i}
            /\ cellOutputs' = MapSet(MapDelete(cellOutputs, i), i,
                   IF o.kind = "throw" THEN <<ErrorOutput("PythonError")>>
                   ELSE RunOutputs(o, i))
    /\ UNCHANGED <<initStage, pyodide, pyodideRef, isPyodideLoading, editableCode>>

\* executeCode(code, cellIndex), where runPython ends as o
executeCode(code, i, o) ==
    /\ NbStep
    /\ i \in CodeCells
    /\ nbEvents < MaxEvents
    /\ nbEvents' = nbEvents + 1
    /\ IF pyodideRef = Null
       THEN UNCHANGED <<cellOutputs, executedCells, pyExec>>
       ELSE /\ pyExec' = [cellIndex |-> i, code |-> ExecArgument(code)]
            /\ IF o.kind = "throw"
               THEN /\ cellOutputs' = MapSet(MapDelete(cellOutputs, i), i,
                                             <<ErrorOutput("PythonError")>>)
                    /\ UNCHANGED executedCells
               ELSE /\ cellOutputs' = MapSet(MapDelete(cellOutputs, i), i,
                                             RunOutputs(o, i))
                    /\ executedCells' = executedCells \cup {i}
    /\ UNCHANGED <<initStage, pyodide, pyodideRef, isPyodideLoading, editableCode>>

\* the Run button of cell i, which a disabled button does not deliver:
\* onClick={() => executeCode(editableCodeValue, index)}
clickRun(i, o) ==
    /\ ~RunDisabled
    /\ i \in CodeCells
    /\ executeCode(editableCodeValue(i), i, o)

NotebookInit ==
    AppIdle /\ HealthIdle /\ NoDocker /\ LegacyMounted /\ NotebookMounted

NotebookNext ==
    \/ initStepSucceeds
    \/ initStepFails
    \/ \E i \in 1 .. MaxCells, c \in EditedCodes : handleCodeChange(i, c)
    \/ \E i \in 1 .. MaxCells, o \in RunOutcomes : clickRun(i, o)

SpecNotebook == NotebookInit /\ [][NotebookNext]_vars

\* the script's load or error event fires, and each await of the onload
\* handler settles
SpecNotebookFair ==
    NotebookInit /\ [][NotebookNext]_vars /\ WF_vars(initStepSucceeds \/ initStepFails)

\* executeCode called whatever the Run button's disabled attribute says
SpecRunRequest ==
    /\ NotebookInit
    /\ [][\/ initStepSucceeds
          \/ initStepFails
          \/ \E i \in 1 .. MaxCells, c \in EditedCodes : handleCodeChange(i, c)
          \/ \E i \in 1 .. MaxCells, o \in RunOutcomes :
                 i \in CodeCells /\ executeCode(editableCodeValue(i), i, o)]_vars

----------------------------------------------------------------------------
(* docker-backend.sh *)

ImageNames == {DefaultGlobals.IMAGE_NAME, "alt"}
\* host ports docker can publish; any other -p value makes docker run fail
HostPorts == {DefaultGlobals.PORT, "9000"}

Commands == {"build", "run", "stop", "restart", "logs", "shell", "clean", "help"}

\* a container that exists is running or stopped (created or exited)
Containers ==
    {Absent} \cup [state : {"running", "stopped"}, image : ImageNames, port : HostPorts]

\* no two running containers publish the same host port
PortsDistinct(cs) ==
    \A m, n \in ContainerNames :
        (m # n /\ cs[m].state = "running" /\ cs[n].state = "running")
            => cs[m].port # cs[n].port

\* the command lines: up to MaxItems commands and options, each option with
\* its value, then possibly an option that lacks its value
Items ==
    {<<c>> : c \in Commands}
    \cup {<<"-p", "9000">>, <<"-n", "alt">>, <<"-i", "alt">>, <<"-h">>, <<"--bogus">>}

RECURSIVE ItemLists(_)
ItemLists(n) ==
    IF n = 0 THEN {<<>>}
    ELSE LET shorter == ItemLists(n - 1)
         IN  shorter \cup {l \o i : l \in shorter, i \in Items}

CommandLines ==
    ItemLists(MaxItems)
    \cup {l \o <<f>> : l \in ItemLists(MaxItems - 1), f \in {"-p", "-n", "-i"}}

\* the argument loop: the globals it leaves, and whether it ended the script.
\* With one argument left, "shift 2" fails and set -e ends the script.
Parsed(g) == [globals |-> g, exited |-> FALSE, status |-> 0]
Exited(g, status) == [globals |-> g, exited |-> TRUE, status |-> status]

\* the command is run where it stands: what follows it is not looked at
RECURSIVE ParseArgs_StopsAtCommand(_, _)
ParseArgs_StopsAtCommand(args, g) ==
    IF args = <<>> THEN Parsed(g)
    ELSE LET a == Head(args)
             value == IF Len(args) >= 2 THEN args[2] ELSE ""
             rest == SubSeq(args, 3, Len(args))
         IN  CASE a \in Commands -> Parsed([g EXCEPT !.COMMAND = a])
               [] a \in {"-p", "--port"} ->
                      IF Len(args) >= 2
                      THEN ParseArgs_StopsAtCommand(rest, [g EXCEPT !.PORT = value])
                      ELSE Exited([g EXCEPT !.PORT = value], 1)
               [] a \in {"-n", "--name"} ->
                      IF Len(args) >= 2
                      THEN ParseArgs_StopsAtCommand(rest, [g EXCEPT !.CONTAINER_NAME = value])
                      ELSE Exited([g EXCEPT !.CONTAINER_NAME = value], 1)
               [] a \in {"-i", "--image"} ->
                      IF Len(args) >= 2
                      THEN ParseArgs_StopsAtCommand(rest, [g EXCEPT !.IMAGE_NAME = value])
                      ELSE Exited([g EXCEPT !.IMAGE_NAME = value], 1)
               [] a \in {"-h", "--help"} ->
                      Exited([g EXCEPT !.usage = TRUE], 0)
               [] OTHER ->
                      Exited([g EXCEPT !.usage = TRUE], 1)

RECURSIVE ParseArgs(_, _)
ParseArgs(args, g) ==
    IF args = <<>> THEN Parsed(g)
    ELSE LET a == Head(args)
             value == IF Len(args) >= 2 THEN args[2] ELSE ""
             rest == SubSeq(args, 3, Len(args))
         IN  CASE a \in Commands ->
                      ParseArgs(Tail(args), [g EXCEPT !.COMMAND = a])
               [] a \in {"-p", "--port"} ->
                      IF Len(args) >= 2
                      THEN ParseArgs(rest, [g EXCEPT !.PORT = value])
                      ELSE Exited([g EXCEPT !.PORT = value], 1)
               [] a \in {"-n", "--name"} ->
                      IF Len(args) >= 2
                      THEN ParseArgs(rest, [g EXCEPT !.CONTAINER_NAME = value])
                      ELSE Exited([g EXCEPT !.CONTAINER_NAME = value], 1)
               [] a \in {"-i", "--image"} ->
                      IF Len(args) >= 2
                      THEN ParseArgs(rest, [g EXCEPT !.IMAGE_NAME = value])
                      ELSE Exited([g EXCEPT !.IMAGE_NAME = value], 1)
               [] a \in {"-h", "--help"} ->
                      Exited([g EXCEPT !.usage = TRUE], 0)
               [] OTHER ->
                      Exited([g EXCEPT !.usage = TRUE], 1)

\* the docker commands the script uses, on a host h = [containers, images]
Host(cs, is) == [containers |-> cs, images |-> is]
Result(h, status) == [host |-> h, status |-> status]

\* docker ps -a ... | grep -q "^$CONTAINER_NAME$"
ContainerExists(h, n) == h.containers[n].state # "absent"
\* docker ps ... | grep -q "^$CONTAINER_NAME$"
ContainerRunning(h, n) == h.containers[n].state = "running"
\* docker images ... | grep -q "^$IMAGE_NAME$"
ImageExists(h, i) == i \in h.images

DockerStop(h, n) ==
    IF ContainerExists(h, n)
    THEN Result([h EXCEPT !.containers[n].state = "stopped"], 0)
    ELSE Result(h, 1)

DockerRm(h, n) ==
    IF h.containers[n].state = "stopped"
    THEN Result([h EXCEPT !.containers[n] = Absent], 0)
    ELSE Result(h, 1)

\* an image some container was created from cannot be removed
DockerRmi(h, i) ==
    IF ImageExists(h, i) /\ \A n \in ContainerNames : h.containers[n].image # i
    THEN Result([h EXCEPT !.images = h.images \ {i}], 0)
    ELSE Result(h, 1)

\* docker run -d --name n -p port:8000 image.  ok: whatever is outside the
\* script's hands goes well (an image docker has to pull exists, the host
\* port is free outside Docker).  A container whose port cannot be bound is
\* left created, not running.
DockerRun(h, n, port, image, ok) ==
    IF ContainerExists(h, n) \/ port \notin HostPorts THEN Result(h, 1)
    ELSE IF ~ImageExists(h, image) /\ ~ok THEN Result(h, 1)
    ELSE LET pulled == [h EXCEPT !.images = h.images \cup {image}]
             busy == \/ ~ok
                     \/ \E m \in ContainerNames :
                            /\ h.containers[m].state = "running"
                            /\ h.containers[m].port = port
             c == [state |-> IF busy THEN "stopped" ELSE "running",
                   image |-> image, port |-> port]
         IN  Result([pulled EXCEPT !.containers[n] = c], IF busy THEN 1 ELSE 0)

DockerBuild(h, i, ok) ==
    IF ok THEN Result([h EXCEPT !.images = h.images \cup {i}], 0)
    ELSE Result(h, 1)

\* the script's functions: the host they leave and the status the script
\* exits with, or continues with (status 0)
build_image(h, g, ok) == DockerBuild(h, g.IMAGE_NAME, ok)

\* GEMINI_API_KEY is checked only after an existing container is removed
run_container_ChecksKeyLate(h, g, key, ok) ==
    LET h1 == IF ContainerExists(h, g.CONTAINER_NAME)
              THEN DockerRm(DockerStop(h, g.CONTAINER_NAME).host,
                            g.CONTAINER_NAME).host
              ELSE h
    IN  IF key = Null \/ key = "" THEN Result(h1, 1)
        ELSE DockerRun(h1, g.CONTAINER_NAME, g.PORT, g.IMAGE_NAME, ok)

\* an existing container of the name is left in place
run_container_KeepsExisting(h, g, key, ok) ==
    IF key = Null \/ key = "" THEN Result(h, 1)
    ELSE DockerRun(h, g.CONTAINER_NAME, g.PORT, g.IMAGE_NAME, ok)

run_container(h, g, key, ok) ==
    IF key = Null \/ key = "" THEN Result(h, 1)
    ELSE LET h1 == IF ContainerExists(h, g.CONTAINER_NAME)
                   THEN DockerRm(DockerStop(h, g.CONTAINER_NAME).host,
                                 g.CONTAINER_NAME).host
                   ELSE h
         IN  DockerRun(h1, g.CONTAINER_NAME, g.PORT, g.IMAGE_NAME, ok)

stop_container(h, g) == Result(DockerStop(h, g.CONTAINER_NAME).host, 0)

restart_container(h, g, key, ok) ==
    run_container(stop_container(h, g).host, g, key, ok)

\* docker logs -f / docker exec -it end when the user leaves them
show_logs(h, g, ok) ==
    IF ContainerRunning(h, g.CONTAINER_NAME) THEN Result(h, IF ok THEN 0 ELSE 1)
    ELSE Result(h, 1)

open_shell(h, g, ok) ==
    IF ContainerRunning(h, g.CONTAINER_NAME) THEN Result(h, IF ok THEN 0 ELSE 1)
    ELSE Result(h, 1)

clean_up(h, g) ==
    LET h1 == IF ContainerExists(h, g.CONTAINER_NAME)
              THEN DockerRm(DockerStop(h, g.CONTAINER_NAME).host,
                            g.CONTAINER_NAME).host
              ELSE h
        h2 == IF ImageExists(h1, g.IMAGE_NAME)
              THEN DockerRmi(h1, g.IMAGE_NAME).host
              ELSE h1
    IN  Result(h2, 0)

\* the case statement on COMMAND
Dispatch(h, g, key, ok) ==
    CASE g.COMMAND = "build" -> build_image(h, g, ok)
      [] g.COMMAND = "run" -> run_container(h, g, key, ok)
      [] g.COMMAND = "stop" -> stop_container(h, g)
      [] g.COMMAND = "restart" -> restart_container(h, g, key, ok)
      [] g.COMMAND = "logs" -> show_logs(h, g, ok)
      [] g.COMMAND = "shell" -> open_shell(h, g, ok)
      [] g.COMMAND = "clean" -> clean_up(h, g)
      [] OTHER -> Result(h, 0)

ShowsUsage(p) == p.globals.usage \/ (~p.exited /\ p.globals.COMMAND \in {"", "help"})

\* what argument parsing can leave, over all command lines
ParseResults == {ParseArgs(args, DefaultGlobals) : args \in CommandLines}

\* the commands whose docker build / run / logs / exec may fail for reasons
\* outside the script
MayFail(p) ==
    ~p.exited /\ p.globals.COMMAND \in {"build", "run", "restart", "logs", "shell"}

\* one run of the script, from the prompt to its exit, on a command line
\* that parses to p
ScriptRuns(p, ok) ==
    /\ shell = "prompt"
    /\ ok \/ MayFail(p)
    /\ LET h == Host(containers, images)
           r == IF p.exited THEN Result(h, p.status)
                ELSE Dispatch(h, p.globals, GEMINI_API_KEY, ok)
       IN  /\ containers' = r.host.containers
           /\ images' = r.host.images
           /\ exitStatus' = r.status
           /\ script' = [p.globals EXCEPT !.usage = ShowsUsage(p),
                                          !.dispatched = ~p.exited]
    /\ shell' = "exited"
    /\ UNCHANGED <<GEMINI_API_KEY, appVars, healthVars, nbVars, legacyVars>>

RunScript(p, ok) == ScriptRuns(p, ok) /\ UNCHANGED argv

\* the same run, followed from its command line on
RunCommandLine(args, ok) ==
    /\ ScriptRuns(ParseArgs(args, DefaultGlobals), ok)
    /\ argv' = args

\* back at the prompt
BackToPrompt ==
    /\ shell = "exited"
    /\ shell' = "prompt"
    /\ script' = DefaultGlobals
    /\ exitStatus' = 0
    /\ UNCHANGED <<containers, images, GEMINI_API_KEY, argv,
                   appVars, healthVars, nbVars, legacyVars>>

\* the user sets or unsets GEMINI_API_KEY at the prompt
ExportKey(key) ==
    /\ shell = "prompt"
    /\ GEMINI_API_KEY # key
    /\ GEMINI_API_KEY' = key
    /\ UNCHANGED <<containers, images, shell, script, exitStatus, argv,
                   appVars, healthVars, nbVars, legacyVars>>

ApiKeys == {Null, "", "key"}

DockerInit ==
    /\ AppIdle /\ HealthIdle /\ NotebookUnmounted /\ LegacyMounted
    /\ containers \in [ContainerNames -> Containers]
    /\ PortsDistinct(containers)
    /\ images \in SUBSET ImageNames
    /\ \A n \in ContainerNames :
           ContainerExists(Host(containers, images), n) => containers[n].image \in images
    /\ GEMINI_API_KEY \in ApiKeys
    /\ shell = "prompt"
    /\ script = DefaultGlobals
    /\ exitStatus = 0
    /\ argv = <<>>

DockerNext ==
    \/ \E p \in ParseResults, ok \in BOOLEAN : RunScript(p, ok)
    \/ BackToPrompt
    \/ \E key \in ApiKeys : ExportKey(key)

SpecDocker == DockerInit /\ [][DockerNext]_vars

\* one run of the script on each command line, with the key set
ArgsInit == DockerInit /\ GEMINI_API_KEY = "key"

ArgsNext ==
    /\ shell = "prompt"
    /\ \E args \in CommandLines, ok \in BOOLEAN : RunCommandLine(args, ok)

SpecArgs == ArgsInit /\ [][ArgsNext]_vars

----------------------------------------------------------------------------
(* Claims about the app *)

NonBlank(s) == \E k \in 1 .. Len(s) : ~IsWhiteSpace(s[k])

\* t is s without its leading and trailing whitespace
IsTrimOf(t, s) ==
    \E i \in 0 .. Len(s) : \E j \in i .. Len(s) :
        /\ t = SubSeq(s, i + 1, j)
        /\ \A k \in 1 .. i : IsWhiteSpace(s[k])
        /\ \A k \in (j + 1) .. Len(s) : IsWhiteSpace(s[k])
        /\ t # <<>> => ~IsWhiteSpace(t[1]) /\ ~IsWhiteSpace(t[Len(t)])

\* C1: every submit whose topic is non-empty after trimming issues exactly
\* one POST /learn, whose body has the fields topic and user_preferences and
\* no others, topic being the entered topic without its leading and trailing
\* whitespace.
C1_SubmitPostsTrimmedTopic ==
    [][(submits' = submits + 1 /\ NonBlank(topic)) =>
         /\ Len(pending') = Len(pending) + 1
         /\ SubSeq(pending', 1, Len(pending)) = pending
         /\ LET body == pending'[Len(pending')]
            IN  /\ DOMAIN body = {"topic", "user_preferences"}
                /\ IsTrimOf(body.topic, topic)
                /\ body.topic # <<>>]_vars

C1_Witness ==
    /\ Len(pending) = 1
    /\ topic = <<" ", "x">>
    /\ pending[1].topic = <<"x">>

\* C2: when the POST /learn of a submit succeeds, learningData becomes the
\* response body and the app shows the learning module built from its
\* learning_blocks, main_topic and components instead of the topic form; once
\* set, learningData stays as it is.
C2_SuccessShowsModule ==
    [][/\ (settled # NoOutcome /\ AxiosResolves(settled)) =>
             /\ learningData' = settled.data
             /\ AppShows' = "LearningModule"
             /\ LearningModuleProps' =
                    [learningBlocks |-> settled.data.learning_blocks,
                     mainTopic |-> settled.data.main_topic,
                     components |-> settled.data.components]
       /\ learningData # NoData =>
             /\ learningData' = learningData
             /\ AppShows' = "LearningModule"]_vars

C2_Witness ==
    /\ learningData \in LearnResponses
    /\ Len(learningData.learning_blocks) = MaxBlocks
    /\ AppShows = "LearningModule"
    /\ \E b \in DOMAIN players : players[b].isPlaying

\* C3: when the POST /learn of a submit fails, error becomes a non-null
\* message shown as an alert, learningData stays null, the form stays
\* displayed with the entered topic and preferences unchanged, and a request
\* is issued only by a further submit.
C3_FailureShowsAlert ==
    [][/\ (settled # NoOutcome /\ ~AxiosResolves(settled)) =>
             /\ Truthy(error')
             /\ SnackbarOpen' /\ FormAlertShown'
             /\ learningData' = NoData
             /\ AppShows' = "TopicForm"
             /\ topic' = topic
             /\ userPreferences' = userPreferences
             /\ selectedPreferences' = selectedPreferences
             /\ pending' = pending
       /\ Len(pending') > Len(pending) => submits' = submits + 1]_vars

C3_Witness ==
    /\ Truthy(error) /\ FormAlertShown /\ SnackbarOpen
    /\ ~isLoading
    /\ pending = <<>> /\ settled = NoOutcome
    /\ NonBlank(topic)
    /\ selectedPreferences # <<>>

\* C4: every failure of generateLearningModule, whatever its cause, reaches
\* handleSubmit as an Error with the one fixed message, so error is never the
\* fallback text 'An error occurred'.
C4_FailureHasFixedMessage ==
    [][/\ (settled # NoOutcome /\ ~AxiosResolves(settled)) =>
             /\ generateLearningModule(settled).kind = "throw"
             /\ generateLearningModule(settled).value.isError
             /\ error' = GENERATE_FAILED
       /\ error' # "An error occurred"]_vars

C4_Witness ==
    /\ error = GENERATE_FAILED
    /\ submits = MaxSubmits
    /\ learningData = NoData

\* C5: at most one POST /learn is in flight at any time, and while one is the
\* submit control is disabled.
C5_OneRequestInFlight ==
    /\ Len(pending) + (IF settled = NoOutcome THEN 0 ELSE 1) <= 1
    /\ pending # <<>> => isLoading /\ SubmitDisabled

C5_Witness ==
    /\ Len(pending) = 1
    /\ NonBlank(topic)
    /\ submits < MaxSubmits
    /\ topic # pending[1].topic

\* C7: a GET /visualization/{path} is issued only by a click on play of a
\* player with that path, and never for a block whose visualization_path is
\* null: such a player shows 'No visualization available' and offers no play.
C7_VideoRequestedOnlyOnPlay ==
    [][/\ \A u \in videoRequests' \ videoRequests :
             \E b \in DOMAIN players :
                 /\ players[b].videoPath # Null
                 /\ u = getVisualizationUrl(players[b].videoPath)
                 /\ ~players[b].isPlaying /\ players'[b].isPlaying
       /\ \A b \in DOMAIN players' :
             players'[b].videoPath = Null =>
                 /\ PlayerShows(players'[b]) = "NoVisualization"
                 /\ ~PlayOffered(players'[b])
                 /\ ~players'[b].isPlaying
                 /\ getVisualizationUrl(Null) \notin videoRequests']_vars

C7_Witness ==
    /\ \E b \in DOMAIN players : players[b].videoPath = Null
    /\ \E b \in DOMAIN players : players[b].isPlaying
    /\ videoRequests # {}

\* C8: after a started video fails to load (handleVideoError), the player
\* displays the message 'Failed to load video'.
C8_VideoErrorDisplayed ==
    \A b \in DOMAIN players :
        players[b].error = "Failed to load video" => PlayerErrorShown(players[b])

----------------------------------------------------------------------------
(* Claims about checkHealth *)

\* C6: checkHealth returns true exactly when GET /health answers with
\* status 200; for every other outcome it returns false, and it never throws.
C6_HealthTrueIffStatus200 ==
    health.pc = "done" =>
        /\ health.result.kind = "return"
        /\ health.result.value \in BOOLEAN
        /\ health.result.value =
               (health.outcome.kind = "response" /\ health.outcome.status = 200)

C6_Witness ==
    /\ health.pc = "done"
    /\ health.outcome = HttpResponse(204, NoData)
    /\ health.result = Return(FALSE)

----------------------------------------------------------------------------
(* Claims about NotebookViewer *)

\* C9: when loading the Pyodide script or initializing the Python runtime
\* fails, the notebook view shows an error message.
C9_PyodideFailureShown ==
    (initStage = "failed" /\ NotebookShows = "Notebook") =>
        \E a \in NotebookAlerts : a.severity = "error"

----------------------------------------------------------------------------
(* Claims about docker-backend.sh *)

\* C10: "run" with GEMINI_API_KEY unset or empty exits with status 1 and
\* changes nothing: no container is stopped, removed or started.
C10_RunWithoutKeyChangesNothing ==
    [][(shell = "prompt" /\ shell' = "exited"
          /\ script'.dispatched /\ script'.COMMAND = "run"
          /\ GEMINI_API_KEY \in {Null, ""}) =>
         /\ exitStatus' = 1
         /\ containers' = containers
         /\ images' = images]_vars

C10_Witness ==
    /\ shell = "exited"
    /\ script.dispatched /\ script.COMMAND = "run"
    /\ script.CONTAINER_NAME = DefaultGlobals.CONTAINER_NAME
    /\ GEMINI_API_KEY = Null
    /\ exitStatus = 1
    /\ containers[DefaultGlobals.CONTAINER_NAME].state = "running"

----------------------------------------------------------------------------
(* The legacy frontend: LinearAlgebraForm *)

Difficulties == {"beginner", "intermediate", "advanced"}

\* what LinearAlgebraForm renders.  Text is a sequence of characters.
Heading ==
    <<"L", "i", "n", "e", "a", "r", " ", "A", "l", "g", "e", "b", "r", "a", " ",
      "L", "e", "a", "r", "n", "i", "n", "g", " ",
      "M", "a", "t", "e", "r", "i", "a", "l", "s">>

Labels ==
    {[htmlFor |-> "topic", text |-> <<"T", "o", "p", "i", "c">>],
     [htmlFor |-> "difficulty",
      text |-> <<"D", "i", "f", "f", "i", "c", "u", "l", "t", "y">>]}

Controls ==
    {[id |-> "topic", tag |-> "input", value |-> laTopic, required |-> TRUE],
     [id |-> "difficulty", tag |-> "select", value |-> <<laDifficulty>>,
      required |-> FALSE]}

Buttons ==
    {[type |-> "submit",
      text |-> <<"G", "e", "t", " ", "M", "a", "t", "e", "r", "i", "a", "l", "s">>]}

\* a regular expression /literal/i searched in a text
ToLower(c) ==
    CASE c = "A" -> "a" [] c = "D" -> "d" [] c = "G" -> "g" [] c = "L" -> "l"
      [] c = "M" -> "m" [] c = "T" -> "t" [] OTHER -> c

LowerCase(text) == [i \in 1 .. Len(text) |-> ToLower(text[i])]

MatchesIgnoringCase(literal, text) ==
    \E i \in 0 .. (Len(text) - Len(literal)) :
        SubSeq(LowerCase(text), i + 1, i + Len(literal)) = LowerCase(literal)

\* Testing Library's queries on the rendered form
getByText(literal) == MatchesIgnoringCase(literal, Heading)

getByLabelText(literal) ==
    {c \in Controls :
        \E l \in Labels : l.htmlFor = c.id /\ MatchesIgnoringCase(literal, l.text)}

getByRoleButton(literal) == {b \in Buttons : MatchesIgnoringCase(literal, b.text)}

LegacyStep == UNCHANGED <<appVars, healthVars, nbVars, dockerVars>>

laSetTopic(s) ==
    /\ LegacyStep
    /\ laTopic' = s
    /\ UNCHANGED <<laDifficulty, laAlert>>

laSetDifficulty(d) ==
    /\ LegacyStep
    /\ laDifficulty' = d
    /\ UNCHANGED <<laTopic, laAlert>>

\* the form is submitted; the browser does not submit it while the required
\* input is empty
laHandleSubmit ==
    /\ LegacyStep
    /\ laTopic # <<>>
    /\ laAlert' = <<"Topic: ">> \o laTopic \o <<", Difficulty: ", laDifficulty>>
    /\ UNCHANGED <<laTopic, laDifficulty>>

LegacyInit ==
    AppIdle /\ HealthIdle /\ NotebookUnmounted /\ NoDocker /\ LegacyMounted

LegacyNext ==
    \/ \E s \in TypedTopics : laSetTopic(s)
    \/ \E d \in Difficulties : laSetDifficulty(d)
    \/ laHandleSubmit

SpecLegacy == LegacyInit /\ [][LegacyNext]_vars

----------------------------------------------------------------------------
(* Claims about the legacy form *)

\* C16: before any user input the legacy form shows the heading 'Linear
\* Algebra Learning Materials', a topic input found by the label text
\* 'Topic:', a difficulty select found by the label text 'Difficulty:' whose
\* value is 'beginner', and a submit button 'Get Materials'.
C16_LegacyFormInitially ==
    LegacyMounted =>
        /\ getByText(Heading)
        /\ \E c \in getByLabelText(<<"T", "o", "p", "i", "c", ":">>) :
               c.tag = "input"
        /\ \E c \in getByLabelText(<<"D", "i", "f", "f", "i", "c", "u", "l", "t", "y", ":">>) :
               c.tag = "select" /\ c.value = <<"beginner">>
        /\ \E b \in getByRoleButton(<<"G", "e", "t", " ", "M", "a", "t", "e", "r", "i", "a", "l", "s">>) :
               b.type = "submit"

----------------------------------------------------------------------------
(* Claims about the commands of docker-backend.sh *)

\* the script has just run the command c (its arguments were parsed to the end)
Ran(c) ==
    /\ shell = "prompt" /\ shell' = "exited"
    /\ script'.dispatched /\ script'.COMMAND = c

\* C11: after a "run" that exits with status 0, the container CONTAINER_NAME
\* is running IMAGE_NAME with host port PORT published and every other
\* container is as it was; a container of that name that existed before
\* causes no name conflict: docker run acts on a host where it is gone.
C11_RunStartsOneContainer ==
    [][Ran("run") =>
         LET n == script'.CONTAINER_NAME
             gone == Host([containers EXCEPT ![n] = Absent], images)
         IN  /\ exitStatus' = 0 =>
                   /\ containers'[n] = [state |-> "running",
                                        image |-> script'.IMAGE_NAME,
                                        port |-> script'.PORT]
                   /\ \A m \in ContainerNames \ {n} : containers'[m] = containers[m]
             /\ (containers[n] # Absent /\ GEMINI_API_KEY \notin {Null, ""}) =>
                   \E ok \in BOOLEAN :
                       Result(Host(containers', images'), exitStatus') =
                           DockerRun(gone, n, script'.PORT, script'.IMAGE_NAME, ok)]_vars

C11_Witness ==
    /\ shell = "exited"
    /\ script.dispatched /\ script.COMMAND = "run"
    /\ exitStatus = 0
    /\ script.IMAGE_NAME = "alt"
    /\ containers[DefaultGlobals.CONTAINER_NAME] =
           [state |-> "running", image |-> "alt", port |-> DefaultGlobals.PORT]
    /\ containers["alt"].state = "running"

\* C12: if the container CONTAINER_NAME was running before "restart", it is
\* running when the command finishes, whatever status the command exits with.
C12_RestartKeepsContainerRunning ==
    [][(Ran("restart") /\ containers[script'.CONTAINER_NAME].state = "running") =>
         containers'[script'.CONTAINER_NAME].state = "running"]_vars

\* C13: after "clean" neither the container CONTAINER_NAME nor the image
\* IMAGE_NAME exists, the command exits with status 0, and a second "clean"
\* would exit with status 0 and change nothing.
C13_CleanRemovesContainerAndImage ==
    [][Ran("clean") =>
         LET after == Host(containers', images')
         IN  /\ exitStatus' = 0
             /\ containers'[script'.CONTAINER_NAME] = Absent
             /\ script'.IMAGE_NAME \notin images'
             /\ clean_up(after, script') = Result(after, 0)]_vars

----------------------------------------------------------------------------
(* Claims about the command line of docker-backend.sh *)

ValueFlags == {"-p", "--port", "-n", "--name", "-i", "--image"}
HelpFlags == {"-h", "--help"}

\* the positions of a command line that hold a command or an option, not the
\* value of an option
Words(args) == {i \in 1 .. Len(args) : i = 1 \/ args[i - 1] \notin ValueFlags}
Last(S) == CHOOSE i \in S : \A j \in S : j <= i
First(S) == CHOOSE i \in S : \A j \in S : i <= j

\* the value the command line gives an option, wherever the option stands
OptionValue(args, flags, default) ==
    LET at == {i \in Words(args) : args[i] \in flags /\ i < Len(args)}
    IN  IF at = {} THEN default ELSE args[Last(at) + 1]

CommandOf(args) ==
    LET at == {i \in Words(args) : args[i] \in Commands}
    IN  IF at = {} THEN "" ELSE args[Last(at)]

UnknownAt(args) ==
    {i \in Words(args) : args[i] \notin Commands \cup ValueFlags \cup HelpFlags}
HelpAt(args) == {i \in Words(args) : args[i] \in HelpFlags}
\* an option that stands last, without its value
DanglingAt(args) == {i \in Words(args) : args[i] \in ValueFlags /\ i = Len(args)}

Untouched == containers' = containers /\ images' = images

\* a command is executed only with the options of the whole command line
OptionsOfWholeLine ==
    /\ ~Untouched => script'.dispatched
    /\ script'.dispatched =>
          /\ script'.COMMAND = CommandOf(argv')
          /\ script'.PORT = OptionValue(argv', {"-p", "--port"}, DefaultGlobals.PORT)
          /\ script'.CONTAINER_NAME =
                 OptionValue(argv', {"-n", "--name"}, DefaultGlobals.CONTAINER_NAME)
          /\ script'.IMAGE_NAME =
                 OptionValue(argv', {"-i", "--image"}, DefaultGlobals.IMAGE_NAME)
          /\ \E ok \in BOOLEAN :
                 Result(Host(containers', images'), exitStatus') =
                     Dispatch(Host(containers, images), script', GEMINI_API_KEY, ok)

\* C14: a command is executed only after all arguments are parsed, with the
\* options given before and after it; a command line with an unknown
\* argument prints usage and exits 1 without executing a command; one with no
\* command prints usage and exits 0 without touching Docker.
C14_ArgumentsParsedFirst ==
    [][(shell = "prompt" /\ shell' = "exited") =>
         /\ OptionsOfWholeLine
         /\ UnknownAt(argv') # {} =>
               script'.usage /\ exitStatus' = 1 /\ ~script'.dispatched /\ Untouched
         /\ (UnknownAt(argv') = {} /\ CommandOf(argv') = "") =>
               script'.usage /\ exitStatus' = 0 /\ Untouched]_vars

\* C14, amended: as C14, where the unknown argument is the first argument to
\* end the parsing and, for the line with no command, where no argument ends
\* the parsing.  -h or --help before an unknown argument prints usage and
\* exits 0; an option standing last without its value exits 1 and prints no
\* usage; neither executes a command.
C14_ArgumentsParsedUntilStopped ==
    [][(shell = "prompt" /\ shell' = "exited") =>
         LET stops == UnknownAt(argv') \cup HelpAt(argv') \cup DanglingAt(argv')
         IN  /\ OptionsOfWholeLine
             /\ stops # {} =>
                   /\ ~script'.dispatched /\ Untouched
                   /\ First(stops) \in UnknownAt(argv') =>
                         script'.usage /\ exitStatus' = 1
                   /\ First(stops) \in HelpAt(argv') =>
                         script'.usage /\ exitStatus' = 0
                   /\ First(stops) \in DanglingAt(argv') =>
                         ~script'.usage /\ exitStatus' = 1
             /\ (stops = {} /\ CommandOf(argv') = "") =>
                   script'.usage /\ exitStatus' = 0 /\ Untouched]_vars

C14_Witness ==
    /\ shell = "exited"
    /\ argv = <<"run", "-p", "9000">>
    /\ exitStatus = 0
    /\ containers[DefaultGlobals.CONTAINER_NAME] =
           [state |-> "running", image |-> DefaultGlobals.IMAGE_NAME, port |-> "9000"]

----------------------------------------------------------------------------
(* Claims about TopicForm's preferences and submit *)

\* the chips of l, first to last, with ", " between them
RECURSIVE CommaSeparated(_)
CommaSeparated(l) ==
    IF Len(l) = 1 THEN l[1]
    ELSE CommaSeparated(SubSeq(l, 1, Len(l) - 1)) \o ", " \o l[Len(l)]

\* C15: the user_preferences of a submit's request is the selected chips
\* joined with ", " in the order of their selection when a chip is selected,
\* and the free text otherwise; a chip that is selected is added after the
\* ones selected before it.
C15_PreferencesSent ==
    [][/\ (submits' = submits + 1 /\ NonBlank(topic)) =>
             LET sent == pending'[Len(pending')].user_preferences
             IN  IF selectedPreferences = <<>> THEN sent = userPreferences
                 ELSE sent = CommaSeparated(selectedPreferences)
       /\ Len(selectedPreferences') > Len(selectedPreferences) =>
             SubSeq(selectedPreferences', 1, Len(selectedPreferences)) =
                 selectedPreferences]_vars

C15_Witness ==
    /\ Len(pending) = 1
    /\ selectedPreferences = <<PERSONALIZATION_OPTIONS[2], PERSONALIZATION_OPTIONS[1]>>
    /\ userPreferences # ""
    /\ pending[1].user_preferences =
           "Focus on practical applications, I want to see visual examples"

\* C17: a submit whose topic is empty or only whitespace sets error to
\* 'Please enter a topic', issues no request and leaves isLoading and
\* learningData as they are.
C17_BlankTopicRefused ==
    [][(submits' = submits + 1 /\ ~NonBlank(topic)) =>
         /\ error' = "Please enter a topic"
         /\ pending' = pending
         /\ isLoading' = isLoading
         /\ learningData' = learningData]_vars

C17_Witness ==
    /\ topic = <<" ">>
    /\ error = "Please enter a topic"
    /\ submits = 1
    /\ pending = <<>> /\ ~isLoading

\* C18: isLoading is true exactly while a request of a submit is in flight or
\* its outcome is still to be handled, and is false once it is handled,
\* whether the request succeeded or failed; where every request settles,
\* isLoading that is true becomes false.
C18_LoadingEnds ==
    /\ [](isLoading <=> (pending # <<>> \/ settled # NoOutcome))
    /\ (isLoading ~> ~isLoading)

\* every submit but the last has failed, the last has succeeded
C18_Witness ==
    /\ ~isLoading
    /\ submits = MaxSubmits
    /\ learningData # NoData
    /\ pending = <<>> /\ settled = NoOutcome

\* C19: whenever learningData is non-null error is null, and once learningData
\* is non-null it stays as it is, the learning module stays shown in place of
\* the topic form, and no submit is handled and no POST /learn is issued.
C19_DataStaysAndNoError ==
    /\ [](learningData # NoData => error = Null)
    /\ [][learningData # NoData =>
             /\ learningData' = learningData
             /\ AppShows' = "LearningModule" /\ ~FormMounted'
             /\ submits' = submits
             /\ pending = <<>> /\ pending' = <<>>]_vars

C19_Witness ==
    /\ learningData # NoData
    /\ error = Null
    /\ submits = MaxSubmits
    /\ \E b \in DOMAIN players : players[b].error = "Failed to load video"

Elements(l) == {l[i] : i \in DOMAIN l}
NoDuplicates(l) == \A i, j \in DOMAIN l : i # j => l[i] # l[j]

\* C20: selectedPreferences never holds an option twice and holds only
\* options of PERSONALIZATION_OPTIONS; a toggle adds or removes its own
\* option and no other, and toggling that option once more gives the set of
\* selected options there was before.
C20_ToggleIsInvolution ==
    /\ [](/\ NoDuplicates(selectedPreferences)
          /\ Elements(selectedPreferences) \subseteq Elements(PERSONALIZATION_OPTIONS)
          /\ \A o \in Elements(PERSONALIZATION_OPTIONS) :
                 Elements(TogglePreference(
                              TogglePreference(selectedPreferences, o), o)) =
                     Elements(selectedPreferences))
    /\ [][(selectedPreferences' # selectedPreferences /\ FormMounted') =>
             \E o \in Elements(PERSONALIZATION_OPTIONS) :
                 /\ \/ Elements(selectedPreferences') =
                           Elements(selectedPreferences) \cup {o}
                    \/ Elements(selectedPreferences') =
                           Elements(selectedPreferences) \ {o}
                 /\ Elements(TogglePreference(selectedPreferences', o)) =
                        Elements(selectedPreferences)]_vars

\* the first of two chips sent with a submit has been deselected since
C20_Witness ==
    /\ Len(pending) = 1
    /\ pending[1].user_preferences =
           CommaSeparated(<<PERSONALIZATION_OPTIONS[1], PERSONALIZATION_OPTIONS[2]>>)
    /\ selectedPreferences = <<PERSONALIZATION_OPTIONS[2]>>

----------------------------------------------------------------------------
(* Claims about VideoPlayer's state *)

\* C21: in every player isLoading implies isPlaying; isPlaying goes from true
\* to false only in the step of a load error of the mounted video; after a
\* load error play is offered, and the step that plays again leaves error
\* null and isLoading and isPlaying true.
C21_PlayerStateAndRetry ==
    /\ [](\A b \in DOMAIN players :
              /\ players[b].isLoading => players[b].isPlaying
              /\ Truthy(players[b].error) => PlayOffered(players[b]))
    /\ [][\A b \in (DOMAIN players) \cap (DOMAIN players') :
             /\ (players[b].isPlaying /\ ~players'[b].isPlaying) =>
                   /\ players[b].video \in {"loading", "loaded"}
                   /\ players'[b].error = "Failed to load video"
                   /\ ~players'[b].isLoading
             /\ (Truthy(players[b].error) /\ players'[b] # players[b]) =>
                   /\ players'[b].error = Null
                   /\ players'[b].isLoading /\ players'[b].isPlaying
                   /\ getVisualizationUrl(players[b].videoPath) \in videoRequests']_vars

\* one video has failed to load, another has loaded and is muted
C21_Witness ==
    /\ \E b \in DOMAIN players :
           ~players[b].isPlaying /\ players[b].error = "Failed to load video"
    /\ \E b \in DOMAIN players :
           players[b].isPlaying /\ ~players[b].isLoading /\ players[b].isMuted

----------------------------------------------------------------------------
(* Claims about NotebookViewer's runtime and code cells *)

\* C22: isPyodideLoading starts true; when the script's load or error event
\* fires and every await of the initialization settles, isPyodideLoading
\* eventually is false for good, and no step makes it true again; the Run
\* button is enabled exactly when the initialization has succeeded.
C22_LoadingEndsAndRunEnabled ==
    /\ isPyodideLoading = TRUE
    /\ <>[](isPyodideLoading = FALSE)
    /\ [][isPyodideLoading = FALSE => isPyodideLoading' = FALSE]_vars
    /\ [](~RunDisabled <=> (initStage = "ready"))
    /\ [](~RunDisabled <=> (pyodide # Null /\ ~isPyodideLoading))

\* the runtime is ready and a cell has been run through its Run button
C22_Witness ==
    /\ initStage = "ready"
    /\ ~isPyodideLoading
    /\ ~RunDisabled
    /\ pyExec # NoData

\* the outputs that one run of cell i ending as o gives the cell
OutputsOfRun(i, o) ==
    IF o.kind = "throw"
    THEN <<[output_type |-> "error", ename |-> "PythonError"]>>
    ELSE RunOutputs(o, i)

\* C23: a run of code cell i with the Python runtime loaded leaves cell i
\* with the outputs of this run alone, and leaves the outputs, the executed
\* marks and the edited code of every other cell as they were; a run
\* requested while the runtime is not loaded changes no state of the
\* component.
C23_RunReplacesOnlyItsCell ==
    [][\A i \in 1 .. MaxCells, o \in RunOutcomes :
         (i \in CodeCells /\ executeCode(editableCodeValue(i), i, o)) =>
            IF pyodideRef = Null
            THEN UNCHANGED <<nbProps, initStage, pyodide, pyodideRef,
                             isPyodideLoading, executedCells, cellOutputs,
                             editableCode, pyExec>>
            ELSE /\ DOMAIN cellOutputs' = (DOMAIN cellOutputs) \cup {i}
                 /\ cellOutputs'[i] = OutputsOfRun(i, o)
                 /\ \A j \in (DOMAIN cellOutputs) \ {i} :
                        cellOutputs'[j] = cellOutputs[j]
                 /\ executedCells' \ {i} = executedCells \ {i}
                 /\ editableCode' = editableCode]_vars

\* a cell has been run twice: the second run threw, and its error is the
\* cell's only output
C23_Witness ==
    \E i \in CodeCells :
        /\ i \in executedCells
        /\ MapHas(cellOutputs, i)
        /\ cellOutputs[i] = <<ErrorOutput("PythonError")>>
        /\ nbEvents = 2

\* C24: when runPython throws in a run of cell i, the outputs of cell i
\* become one output of type "error" with ename "PythonError" and the run
\* does not add i to executedCells; when it does not throw, i is in
\* executedCells afterwards; no step removes a member of executedCells.
C24_ThrowGivesPythonError ==
    [][/\ executedCells \subseteq executedCells'
       /\ \A i \in 1 .. MaxCells, o \in RunOutcomes :
             clickRun(i, o) =>
                IF o.kind = "throw"
                THEN /\ Len(cellOutputs'[i]) = 1
                     /\ cellOutputs'[i][1].output_type = "error"
                     /\ cellOutputs'[i][1].ename = "PythonError"
                     /\ (i \in executedCells') = (i \in executedCells)
                ELSE i \in executedCells']_vars

\* one cell has run without a throw, the run of another has thrown
C24_Witness ==
    \E i, j \in CodeCells :
        /\ i \in executedCells
        /\ MapHas(cellOutputs, i)
        /\ \A k \in 1 .. Len(cellOutputs[i]) : cellOutputs[i][k].output_type # "error"
        /\ j \notin executedCells
        /\ MapHas(cellOutputs, j)
        /\ cellOutputs[j] = <<ErrorOutput("PythonError")>>

\* C25: once the user has edited a code cell to s, the cell's editor shows s
\* and Run gives s to the Python runtime, for every s, the empty string
\* included; a cell that has never been edited shows and runs its original
\* source.
C25_EditedCodeShownAndRun ==
    [][\A i \in 1 .. MaxCells :
         i \in CodeCells =>
            LET s == IF MapHas(editableCode, i) THEN editableCode[i]
                     ELSE originalCode(i)
            IN  /\ editableCodeValue(i) = s
                /\ \A o \in RunOutcomes :
                      clickRun(i, o) => pyExec' = [cellIndex |-> i, code |-> s]]_vars

====
